---- MODULE Spec2Model ----
(***************************************************************************)
(* A model of the analytics core of base-defi-utilities-2025:              *)
(*   - BaseYieldCalculator.optimizeYieldStrategy, calculateMaxDrawdown,    *)
(*     calculateVaR, calculateImpermanentLoss, calculateSharpeRatio and    *)
(*     calculateAdvancedImpermanentLoss  (src/unnamed/part_005)            *)
(*   - BaseRiskAssessment.calculatePortfolioVaR (src/unnamed/part_002)     *)
(*   - YieldCalculator.calculateAPY, calculateFarmingYield,                *)
(*     calculateOptimalCompounding and calculatePoolYield                  *)
(*                                       (src/unnamed/part_001)            *)
(*   - BaseErrorHandler.retryOperation and handleError                     *)
(*                                       (src/unnamed/part_001)            *)
(*                                                                         *)
(* Numbers.  TLC has 32-bit integers and no reals, so                      *)
(*   - money of the optimizer is counted in cents;                         *)
(*   - a strategy's risk and the constraint maxRisk are counted in         *)
(*     hundredths, maxAllocationPerStrategy in tenths;                     *)
(*   - quotients that the optimizer, the drawdown scan and the VaR loops   *)
(*     keep as JavaScript doubles are kept as exact fractions [num, den];  *)
(*     a den of 0 is the double NaN (0/0);                                 *)
(*   - the doubles of the one-call analytics (impermanent loss, Sharpe     *)
(*     ratio) are binary floating-point numbers of 13 significant bits,    *)
(*     rounded to nearest-even as IEEE 754 doubles are;                    *)
(*   - bignumber.js values are fixed-point with 8 decimals (the library's  *)
(*     DECIMAL_PLACES is 20), rounded half up as the library's default     *)
(*     ROUNDING_MODE does.                                                 *)
(***************************************************************************)
EXTENDS Integers, Sequences, FiniteSets, TLC

VARIABLES
    pc,                 \* position in the operation under way
    \* ---- optimizeYieldStrategy
    strategies,         \* the caller's strategy objects (the heap the refs point into)
    constraints,        \* the caller's constraints record
    validStrategies,    \* sequence of references (indices into strategies)
    allocations,        \* the allocations pushed so far
    remainingCapital,   \* cents
    totalAllocatedRisk, \* sum of allocation (cents) * risk (hundredths)
    cursor,             \* for (const strategy of validStrategies): next index
    \* ---- calculateMaxDrawdown (positions in priceHistory count from 1)
    priceHistory,
    peak,
    maxDrawdown,        \* the fraction (peak - price) / peak
    drawdownStart,
    drawdownEnd,
    currentDrawdownStart,
    idx,                \* the loop's i
    \* ---- calculatePortfolioVaR and calculateVaR
    portfolio,          \* the call's arguments: positions, confidenceLevel, timeHorizon
    portfolioValue,     \* the running sum (totalValue in calculateVaR)
    usedWeights,        \* the weight (and volatility) each position entered the variance sum with
    posCursor,          \* forEach: next position
    \* ---- YieldCalculator
    call,               \* the operation called and its arguments
    freqCursor,         \* frequencies.forEach: next candidate
    optimalFreq,
    maxNetYield,
    \* ---- BaseErrorHandler
    attempt,            \* retryOperation: the loop's attempt
    lastError,
    operationPending,   \* an invocation of the operation has not settled yet
    invocations,        \* how many times the operation has been invoked
    errorCounts,        \* the Map from `${name}_${code}` to a count
    errorHistory,
    errorSeq,           \* how many errors processError has given an id
    \* ----
    result              \* the value returned (or thrown) by the operation

optVars == <<strategies, constraints, validStrategies, allocations,
             remainingCapital, totalAllocatedRisk, cursor>>

ddVars == <<priceHistory, peak, maxDrawdown, drawdownStart, drawdownEnd,
            currentDrawdownStart, idx>>

riskVars == <<portfolio, portfolioValue, usedWeights, posCursor>>

yieldVars == <<call, freqCursor, optimalFreq, maxNetYield>>

errVars == <<attempt, lastError, operationPending, invocations,
             errorCounts, errorHistory, errorSeq>>

vars == <<pc, optVars, ddVars, riskVars, yieldVars, errVars, result>>

\* the value of result while the operation runs
Pending == [pending |-> TRUE]

\* the state of the operations that are not under way
OptIdle ==
    /\ strategies = <<>>
    /\ constraints = [maxRisk |-> 0, minYield |-> 0,
                      maxAllocationPerStrategy |-> 0, totalCapital |-> 0]
    /\ validStrategies = <<>>
    /\ allocations = <<>>
    /\ remainingCapital = 0
    /\ totalAllocatedRisk = 0
    /\ cursor = 0

DrawdownIdle ==
    /\ priceHistory = <<>>
    /\ peak = 0
    /\ maxDrawdown = [num |-> 0, den |-> 1]
    /\ drawdownStart = 0
    /\ drawdownEnd = 0
    /\ currentDrawdownStart = 0
    /\ idx = 0

RiskIdle ==
    /\ portfolio = [positions |-> <<>>, confidenceLevel |-> 95, timeHorizon |-> 1]
    /\ portfolioValue = 0
    /\ usedWeights = <<>>
    /\ posCursor = 0

YieldIdle ==
    /\ call = [op |-> "none"]
    /\ freqCursor = 0
    /\ optimalFreq = 0
    /\ maxNetYield = 0

\* no error so far
NoError == [name |-> "none"]

\* an empty Map
EmptyMap == [k \in {} |-> 0]

ErrorHandlerIdle ==
    /\ attempt = 0
    /\ lastError = NoError
    /\ operationPending = FALSE
    /\ invocations = 0
    /\ errorCounts = EmptyMap
    /\ errorHistory = <<>>
    /\ errorSeq = 0

----------------------------------------------------------------------------
(* Arithmetic helpers *)

Min2(a, b) == IF a <= b THEN a ELSE b

Abs(x) == IF x < 0 THEN -x ELSE x

\* Number.prototype.toFixed and bignumber's ROUND_HALF_UP on a non-negative
\* quotient n/d (d > 0): the nearest integer, the larger one on a tie.
RoundHalfUp(n, d) == (2 * n + d) \div (2 * d)

RECURSIVE SumSeq(_)
SumSeq(s) == IF s = <<>> THEN 0 ELSE Head(s) + SumSeq(Tail(s))

\* exact fractions
RatLess(a, b) == a.num * b.den < b.num * a.den
RatEq(a, b) == a.num * b.den = b.num * a.den

----------------------------------------------------------------------------
(* optimizeYieldStrategy: inputs *)

MaxStrategies == 3

\* risk in hundredths; A, B, C are the strategies of the test suite, D has
\* risk 0, E a small positive risk, F has the same score as A.
StrategyPool ==
    { [name |-> "A", apy |-> 12, risk |-> 20, liquidity |-> 80],
      [name |-> "B", apy |-> 18, risk |-> 40, liquidity |-> 60],
      [name |-> "C", apy |-> 8,  risk |-> 10, liquidity |-> 95],
      [name |-> "D", apy |-> 15, risk |-> 0,  liquidity |-> 50],
      [name |-> "E", apy |-> 18, risk |-> 5,  liquidity |-> 60],
      [name |-> "F", apy |-> 9,  risk |-> 15, liquidity |-> 80] }

\* sequences of distinct strategies, at most MaxStrategies long
StrategyLists ==
    UNION { { s \in [1..n -> StrategyPool] :
                \A i, j \in 1..n : i # j => s[i].name # s[j].name } :
            n \in 0..MaxStrategies }

\* maxRisk in hundredths, maxAllocationPerStrategy in tenths, totalCapital in cents
ConstraintSets ==
    [ maxRisk : {10, 30},
      minYield : {5, 10},
      maxAllocationPerStrategy : {1, 2, 4, 10},
      totalCapital : {300000, 400000, 500000, 1000000, 10000000} ]

----------------------------------------------------------------------------
(* optimizeYieldStrategy: the pure parts *)

\* the filter without its risk test
PassesFilterNoRisk(s, c) == s.apy >= c.minYield

\* strategy.apy >= minYield && strategy.risk <= maxRisk
PassesFilter(s, c) == s.apy >= c.minYield /\ s.risk <= c.maxRisk

\* strategies.filter(...): the references of the strategies that pass, in order
RECURSIVE FilterRefs(_, _, _)
FilterRefs(objs, c, i) ==
    IF i > Len(objs) THEN <<>>
    ELSE (IF PassesFilter(objs[i], c) THEN <<i>> ELSE <<>>)
         \o FilterRefs(objs, c, i + 1)

\* strategy.riskAdjustedReturn = apy / (risk || 0.1), as a fraction of
\* hundredths: apy * 100 / risk, and risk 0 is replaced by 0.1 = 10 hundredths
RiskAdjustedReturn(s) ==
    [num |-> s.apy * 100, den |-> IF s.risk = 0 THEN 10 ELSE s.risk]

\* strategy.score = riskAdjustedReturn * (1 + liquidity / 100)
Score(s) ==
    [num |-> s.apy * (100 + s.liquidity), den |-> RiskAdjustedReturn(s).den]

\* an insertion that puts a reference before the ones of equal score
RECURSIVE InsertBeforeEqual(_, _, _)
InsertBeforeEqual(objs, sorted, r) ==
    IF sorted = <<>> THEN <<r>>
    ELSE IF ~RatLess(objs[r].score, objs[Head(sorted)].score)
         THEN <<r>> \o sorted
         ELSE <<Head(sorted)>> \o InsertBeforeEqual(objs, Tail(sorted), r)

\* validStrategies.sort((a, b) => b.score - a.score): Array.prototype.sort is
\* stable, so a reference goes after every one whose score is >= its own.
RECURSIVE InsertByScore(_, _, _)
InsertByScore(objs, sorted, r) ==
    IF sorted = <<>> THEN <<r>>
    ELSE IF RatLess(objs[Head(sorted)].score, objs[r].score)
         THEN <<r>> \o sorted
         ELSE <<Head(sorted)>> \o InsertByScore(objs, Tail(sorted), r)

RECURSIVE SortByScore(_, _)
SortByScore(objs, refs) ==
    IF refs = <<>> THEN <<>>
    ELSE InsertByScore(objs,
                       SortByScore(objs, SubSeq(refs, 1, Len(refs) - 1)),
                       refs[Len(refs)])

\* Math.min(remainingCapital, totalCapital * maxAllocationPerStrategy,
\*          totalCapital * 0.8)
MaxAllocation(remaining, c) ==
    Min2(remaining,
         Min2((c.totalCapital \div 10) * c.maxAllocationPerStrategy,
              (c.totalCapital \div 10) * 8))

\* the allocation without the 30% of the remaining capital
AllocationWholeRemainder(remaining, c) == MaxAllocation(remaining, c)

\* the allocation without the per-strategy cap
AllocationNoCap(remaining, c) == (remaining * 3) \div 10

\* Math.min(maxAllocation, remainingCapital * 0.3)
Allocation(remaining, c) ==
    Min2(MaxAllocation(remaining, c), (remaining * 3) \div 10)

\* if (allocation > 1000): the minimum allocation threshold, in cents
MinAllocation == 100000

\* the object pushed on allocations
AllocationEntry(s, allocation, c) ==
    [ strategy |-> s.name,
      allocation |-> allocation,
      \* (allocation / totalCapital * 100).toFixed(1), in tenths of a percent
      percentage |-> RoundHalfUp(allocation, c.totalCapital \div 1000),
      \* (allocation * apy / 100).toFixed(2), in cents
      expectedReturn |-> RoundHalfUp(allocation * s.apy, 100),
      risk |-> s.risk,
      apy |-> s.apy ]

RECURSIVE SumField(_, _)
SumField(s, f) == IF s = <<>> THEN 0 ELSE Head(s)[f] + SumField(Tail(s), f)

\* portfolioMetrics of the returned object
PortfolioMetrics(allocs, remaining, riskSum, c) ==
    LET totalAllocated == c.totalCapital - remaining
    IN  [ totalAllocated |-> totalAllocated,
          remainingCash |-> remaining,
          \* sum of expectedReturn / totalAllocated * 100 (0 for no allocation)
          weightedAPY |-> IF allocs = <<>> THEN [num |-> 0, den |-> 1]
                          ELSE [num |-> SumField(allocs, "expectedReturn") * 100,
                                den |-> totalAllocated],
          \* totalAllocatedRisk = riskSum / (totalCapital * 100)
          portfolioRisk |-> [num |-> riskSum, den |-> c.totalCapital * 100],
          diversificationScore |-> IF Len(allocs) >= 3 THEN "Good"
                                   ELSE "Needs improvement" ]

NoStrategiesError == [error |-> "No strategies meet the specified constraints"]
----------------------------------------------------------------------------
(* optimizeYieldStrategy: the steps *)

InitOptimizer ==
    /\ pc = "filter"
    /\ strategies \in StrategyLists
    /\ constraints \in ConstraintSets
    /\ validStrategies = <<>>
    /\ allocations = <<>>
    /\ remainingCapital = 0
    /\ totalAllocatedRisk = 0
    /\ cursor = 0
    /\ DrawdownIdle /\ RiskIdle /\ YieldIdle /\ ErrorHandlerIdle
    /\ result = Pending

\* the filter without the early return of line 352: an empty validStrategies
\* runs through the loop and the metrics like any other
FilterStrategiesFallThrough ==
    /\ pc = "filter"
    /\ validStrategies' = FilterRefs(strategies, constraints, 1)
    /\ pc' = "score"
    /\ UNCHANGED <<strategies, constraints, allocations, remainingCapital,
                   totalAllocatedRisk, cursor, result>>
    /\ UNCHANGED <<ddVars, riskVars, yieldVars, errVars>>

\* lines 347-354: filter, and the early return when nothing passes
FilterStrategies ==
    /\ pc = "filter"
    /\ validStrategies' = FilterRefs(strategies, constraints, 1)
    /\ IF validStrategies' = <<>>
       THEN /\ pc' = "done"
            /\ result' = NoStrategiesError
       ELSE /\ pc' = "score"
            /\ result' = result
    /\ UNCHANGED <<strategies, constraints, allocations, remainingCapital,
                   totalAllocatedRisk, cursor>>
    /\ UNCHANGED <<ddVars, riskVars, yieldVars, errVars>>

\* lines 356-360: forEach writes riskAdjustedReturn and score into the
\* strategy objects themselves (validStrategies holds references)
ScoreStrategies ==
    /\ pc = "score"
    /\ strategies' =
         [ i \in 1..Len(strategies) |->
             IF \E k \in 1..Len(validStrategies) : validStrategies[k] = i
             THEN [ name |-> strategies[i].name,
                    apy |-> strategies[i].apy,
                    risk |-> strategies[i].risk,
                    liquidity |-> strategies[i].liquidity,
                    riskAdjustedReturn |-> RiskAdjustedReturn(strategies[i]),
                    score |-> Score(strategies[i]) ]
             ELSE strategies[i] ]
    /\ pc' = "sort"
    /\ UNCHANGED <<constraints, validStrategies, allocations, remainingCapital,
                   totalAllocatedRisk, cursor, result>>
    /\ UNCHANGED <<ddVars, riskVars, yieldVars, errVars>>

\* lines 362-368: sort, then the allocation loop's initial state
SortStrategies ==
    /\ pc = "sort"
    /\ validStrategies' = SortByScore(strategies, validStrategies)
    /\ allocations' = <<>>
    /\ remainingCapital' = constraints.totalCapital
    /\ totalAllocatedRisk' = 0
    /\ cursor' = 1
    /\ pc' = "allocate"
    /\ UNCHANGED <<strategies, constraints, result>>
    /\ UNCHANGED <<ddVars, riskVars, yieldVars, errVars>>

\* lines 370-394: one iteration of the loop
AllocateStep ==
    /\ pc = "allocate"
    /\ cursor <= Len(validStrategies)
    /\ remainingCapital > 0
    /\ LET strategy == strategies[validStrategies[cursor]]
           allocation == Allocation(remainingCapital, constraints)
       IN  IF allocation > MinAllocation
           THEN /\ allocations' = Append(allocations,
                                   AllocationEntry(strategy, allocation, constraints))
                /\ remainingCapital' = remainingCapital - allocation
                /\ totalAllocatedRisk' = totalAllocatedRisk
                                           + allocation * strategy.risk
           ELSE UNCHANGED <<allocations, remainingCapital, totalAllocatedRisk>>
    /\ cursor' = cursor + 1
    /\ UNCHANGED <<pc, strategies, constraints, validStrategies, result>>
    /\ UNCHANGED <<ddVars, riskVars, yieldVars, errVars>>

\* lines 371 and 396-414: the loop ends (exhausted, or break), metrics, return
ReturnAllocations ==
    /\ pc = "allocate"
    /\ cursor > Len(validStrategies) \/ remainingCapital <= 0
    /\ result' = [ allocations |-> allocations,
                   portfolioMetrics |->
                     PortfolioMetrics(allocations, remainingCapital,
                                      totalAllocatedRisk, constraints) ]
    /\ pc' = "done"
    /\ UNCHANGED <<optVars, ddVars, riskVars, yieldVars, errVars>>

NextOptimizer ==
    \/ FilterStrategies
    \/ ScoreStrategies
    \/ SortStrategies
    \/ AllocateStep
    \/ ReturnAllocations

SpecOptimizer == InitOptimizer /\ [][NextOptimizer]_vars

----------------------------------------------------------------------------
(* Claims about optimizeYieldStrategy *)

Returned == pc = "done" /\ "allocations" \in DOMAIN result

\* what has been emitted before the k-th allocation
RECURSIVE EmittedBefore(_, _)
EmittedBefore(allocs, k) ==
    IF k <= 1 THEN 0
    ELSE allocs[k - 1].allocation + EmittedBefore(allocs, k - 1)

\* C1: every allocation that optimizeYieldStrategy returns has
\* risk <= constraints.maxRisk.
C1_ReturnedRiskWithinMaxRisk ==
    Returned =>
        \A k \in 1..Len(result.allocations) :
            result.allocations[k].risk <= constraints.maxRisk

\* C1 witness: allocations were returned although the caller offered a
\* strategy with enough yield whose risk is above maxRisk.
C1_Witness ==
    /\ Returned
    /\ Len(result.allocations) >= 2
    /\ \E i \in 1..Len(strategies) :
          /\ strategies[i].risk > constraints.maxRisk
          /\ strategies[i].apy >= constraints.minYield

\* C2: in every state of the allocation loop the amounts allocated so far sum
\* to at most totalCapital, and each emitted amount is at most the capital that
\* remained when it was emitted and at most totalCapital * maxAllocationPerStrategy.
C2_AllocationsWithinCapital ==
    pc \in {"allocate", "done"} =>
        /\ SumField(allocations, "allocation") <= constraints.totalCapital
        /\ \A k \in 1..Len(allocations) :
              /\ allocations[k].allocation
                    <= constraints.totalCapital - EmittedBefore(allocations, k)
              /\ allocations[k].allocation * 10
                    <= constraints.totalCapital * constraints.maxAllocationPerStrategy

\* C2 witness: the loop has emitted two amounts, one held down by the
\* per-strategy cap and one by the 30% of the remaining capital.
C2_Witness ==
    /\ pc = "allocate"
    /\ Len(allocations) >= 2
    /\ allocations[1].allocation * 10
          = constraints.totalCapital * constraints.maxAllocationPerStrategy
    /\ \E k \in 2..Len(allocations) :
          allocations[k].allocation * 10
            < constraints.totalCapital * constraints.maxAllocationPerStrategy

NoStrategyPasses ==
    \A i \in 1..Len(strategies) :
        ~(strategies[i].apy >= constraints.minYield
            /\ strategies[i].risk <= constraints.maxRisk)

C21_StrategiesImmutable == [][strategies' = strategies]_vars

\* the strategy objects in the order the loop processes them
Processed(k) == strategies[validStrategies[k]]

\* C23: in the ranking a strategy with risk = 0 is score-maximizing: among
\* the strategies that pass the filter, every strategy with risk = 0 is
\* processed before every strategy with risk > 0, whatever their apy and
\* liquidity.
C23_ZeroRiskProcessedFirst ==
    (pc = "allocate" \/ Returned) =>
        \A i, j \in 1..Len(validStrategies) :
            (i < j /\ Processed(j).risk = 0) => Processed(i).risk = 0

\* the cap of the contract, in cents: min(remainingCapital,
\* totalCapital * maxAllocationPerStrategy, remainingCapital * 0.3)
Cap(remaining, c) ==
    Min2(remaining,
         Min2((c.totalCapital \div 10) * c.maxAllocationPerStrategy,
              (remaining * 3) \div 10))

\* C24: in the allocation loop a strategy is skipped iff cap < 1000, and is
\* otherwise allocated exactly cap, which is taken off remainingCapital; in
\* particular a cap of exactly 1000 is allocated.
C24_SkipIffCapBelowMinimum ==
    [][ (pc = "allocate" /\ cursor' = cursor + 1) =>
          LET cap == Cap(remainingCapital, constraints)
          IN  IF cap < MinAllocation
              THEN allocations' = allocations /\ remainingCapital' = remainingCapital
              ELSE /\ Len(allocations') = Len(allocations) + 1
                   /\ allocations'[Len(allocations')].allocation = cap
                   /\ allocations'[Len(allocations')].strategy = Processed(cursor).name
                   /\ remainingCapital' = remainingCapital - cap ]_vars

\* the caller's strategy an allocation was emitted for
InputIndex(name) == CHOOSE i \in 1..Len(strategies) : strategies[i].name = name

\* score = (apy / risk) * (1 + liquidity / 100); a risk of 0 divides by 0
\* and the fraction stands for Infinity
ScoreByRisk(s) == [num |-> s.apy * (100 + s.liquidity), den |-> s.risk]

C27_RemainingCapitalPositive ==
    (pc = "allocate" /\ constraints.totalCapital > 0) =>
        /\ remainingCapital
              = constraints.totalCapital - SumField(allocations, "allocation")
        /\ remainingCapital > 0
        /\ Len(allocations) <= cursor - 1
        /\ \A k \in 1..Len(allocations) :
              allocations[k].strategy = Processed(k).name
        /\ Len(allocations) < cursor - 1 =>
              Allocation(remainingCapital, constraints) <= MinAllocation

\* C27 witness: the loop has emitted an allocation, then skipped a strategy,
\* and has a further strategy to process
C27_Witness ==
    /\ pc = "allocate"
    /\ Len(allocations) >= 1
    /\ Len(allocations) < cursor - 1
    /\ cursor <= Len(validStrategies)
    /\ remainingCapital < constraints.totalCapital

----------------------------------------------------------------------------
(* calculateMaxDrawdown *)

MaxLen == 4
MaxPrice == 4

\* price histories: positive whole prices, chronological
PriceHistories == UNION { [1..n -> 1..MaxPrice] : n \in 0..MaxLen }

InitDrawdown ==
    /\ pc = "drawdown"
    /\ priceHistory \in PriceHistories
    /\ peak = 0
    /\ maxDrawdown = [num |-> 0, den |-> 1]
    /\ drawdownStart = 0
    /\ drawdownEnd = 0
    /\ currentDrawdownStart = 0
    /\ idx = 0
    /\ OptIdle /\ RiskIdle /\ YieldIdle /\ ErrorHandlerIdle
    /\ result = Pending

\* lines 300-302: fewer than two prices
DrawdownTooShort ==
    /\ pc = "drawdown"
    /\ Len(priceHistory) < 2
    /\ result' = [maxDrawdown |-> 0, drawdownPeriod |-> 0, recovery |-> "N/A"]
    /\ pc' = "done"
    /\ UNCHANGED <<ddVars, optVars, riskVars, yieldVars, errVars>>

\* the scan started with the last price as its peak
DrawdownStartFromLast ==
    /\ pc = "drawdown"
    /\ Len(priceHistory) >= 2
    /\ peak' = priceHistory[Len(priceHistory)]
    /\ maxDrawdown' = [num |-> 0, den |-> 1]
    /\ drawdownStart' = 1
    /\ drawdownEnd' = 1
    /\ currentDrawdownStart' = 1
    /\ idx' = 2
    /\ pc' = "scan"
    /\ UNCHANGED <<priceHistory, result, optVars, riskVars, yieldVars, errVars>>

\* lines 304-308: the scan's initial state (priceHistory[0] is position 1)
DrawdownStart ==
    /\ pc = "drawdown"
    /\ Len(priceHistory) >= 2
    /\ peak' = priceHistory[1]
    /\ maxDrawdown' = [num |-> 0, den |-> 1]
    /\ drawdownStart' = 1
    /\ drawdownEnd' = 1
    /\ currentDrawdownStart' = 1
    /\ idx' = 2
    /\ pc' = "scan"
    /\ UNCHANGED <<priceHistory, result, optVars, riskVars, yieldVars, errVars>>

\* lines 310-322: one iteration of the scan
DrawdownStep ==
    /\ pc = "scan"
    /\ idx <= Len(priceHistory)
    /\ IF priceHistory[idx] > peak
       THEN /\ peak' = priceHistory[idx]
            /\ currentDrawdownStart' = idx
            /\ UNCHANGED <<maxDrawdown, drawdownStart, drawdownEnd>>
       ELSE LET drawdown == [num |-> peak - priceHistory[idx], den |-> peak]
            IN  /\ IF RatLess(maxDrawdown, drawdown)
                   THEN /\ maxDrawdown' = drawdown
                        /\ drawdownStart' = currentDrawdownStart
                        /\ drawdownEnd' = idx
                   ELSE UNCHANGED <<maxDrawdown, drawdownStart, drawdownEnd>>
                /\ UNCHANGED <<peak, currentDrawdownStart>>
    /\ idx' = idx + 1
    /\ UNCHANGED <<pc, priceHistory, result, optVars, riskVars, yieldVars, errVars>>

\* lines 324-330: the returned object; percentages in hundredths of a
\* percent ((maxDrawdown * 100).toFixed(2)), prices in hundredths (toFixed(2))
DrawdownReturn ==
    /\ pc = "scan"
    /\ idx > Len(priceHistory)
    /\ result' = [ maxDrawdown |-> RoundHalfUp(maxDrawdown.num * 10000, maxDrawdown.den),
                   drawdownPeriod |-> drawdownEnd - drawdownStart,
                   peakValue |-> peak * 100,
                   troughValue |-> priceHistory[drawdownEnd] * 100,
                   recovery |-> IF maxDrawdown.num > 0 THEN "Monitoring required"
                                ELSE "No significant drawdown" ]
    /\ pc' = "done"
    /\ UNCHANGED <<ddVars, optVars, riskVars, yieldVars, errVars>>

NextDrawdown ==
    \/ DrawdownTooShort
    \/ DrawdownStart
    \/ DrawdownStep
    \/ DrawdownReturn

SpecDrawdown == InitDrawdown /\ [][NextDrawdown]_vars

----------------------------------------------------------------------------
(* Claims about calculateMaxDrawdown *)

RECURSIVE RunningPeak(_, _)
RunningPeak(s, k) ==
    IF k = 1 THEN s[1]
    ELSE LET p == RunningPeak(s, k - 1) IN IF s[k] > p THEN s[k] ELSE p

\* the first position at which the running peak of position k was reached
PeakPosition(s, k) ==
    CHOOSE j \in 1..k :
        /\ s[j] = RunningPeak(s, k)
        /\ \A h \in 1..(j - 1) : s[h] < s[j]

\* the drawdown at position k, from the running peak in force there
DrawdownAt(s, k) == [num |-> RunningPeak(s, k) - s[k], den |-> RunningPeak(s, k)]

\* the first position whose drawdown is the deepest of the series
Trough(s) ==
    CHOOSE k \in 1..Len(s) :
        /\ \A h \in 1..Len(s) : ~RatLess(DrawdownAt(s, k), DrawdownAt(s, h))
        /\ \A h \in 1..(k - 1) : RatLess(DrawdownAt(s, h), DrawdownAt(s, k))

\* C3: for a series of two or more prices (here: one in which some price
\* falls below an earlier one), the returned peakValue is the running peak in
\* force at the deepest drawdown, troughValue is the price at that trough,
\* (peakValue - troughValue) / peakValue is the returned maxDrawdown, and
\* drawdownPeriod is the distance from that peak to the trough.
C3_PeakAndTroughOfDeepestDrawdown ==
    (pc = "done" /\ Len(priceHistory) >= 2 /\ result.maxDrawdown > 0) =>
        LET t == Trough(priceHistory)
        IN  /\ result.troughValue = priceHistory[t] * 100
            /\ result.peakValue = RunningPeak(priceHistory, t) * 100
            /\ result.maxDrawdown
                 = RoundHalfUp((result.peakValue - result.troughValue) * 100,
                               result.peakValue \div 100)
            /\ result.drawdownPeriod = t - PeakPosition(priceHistory, t)

\* What the scan does keep: maxDrawdown, troughValue and drawdownPeriod are
\* those of the deepest drawdown.
TroughOfDeepestDrawdown ==
    (pc = "done" /\ Len(priceHistory) >= 2) =>
        LET t == Trough(priceHistory)
            d == DrawdownAt(priceHistory, t)
        IN  /\ result.troughValue = priceHistory[t] * 100
            /\ result.maxDrawdown = RoundHalfUp(d.num * 10000, d.den)
            /\ result.drawdownPeriod = t - PeakPosition(priceHistory, t)

NonDecreasing(s) == \A k \in 1..(Len(s) - 1) : s[k] <= s[k + 1]

\* C20: calculateMaxDrawdown returns a maxDrawdown of 0 for every series of
\* fewer than 2 prices, the empty one included, and for every monotonically
\* non-decreasing series of any length.
C20_NoDrawdownWithoutFall ==
    (pc = "done" /\ (Len(priceHistory) < 2 \/ NonDecreasing(priceHistory))) =>
        result.maxDrawdown = 0

\* C20 witness: a non-decreasing series of three or more prices that both
\* rises and stays level has been scanned, and its maxDrawdown is 0
C20_Witness ==
    /\ pc = "done"
    /\ Len(priceHistory) >= 3
    /\ NonDecreasing(priceHistory)
    /\ \E k \in 1..(Len(priceHistory) - 1) : priceHistory[k] < priceHistory[k + 1]
    /\ \E k \in 1..(Len(priceHistory) - 1) : priceHistory[k] = priceHistory[k + 1]
    /\ result.maxDrawdown = 0
    /\ result.recovery = "No significant drawdown"

----------------------------------------------------------------------------
(* BaseRiskAssessment.calculatePortfolioVaR and BaseYieldCalculator.calculateVaR *)
(* The square roots (portfolioVolatility and the amounts derived from it)  *)
(* are not computed: the model keeps the terms of the variance sum, that   *)
(* is the weight each position and each pair entered it with.              *)

MaxPositions == 3

\* volatility in tenths, 0 for a position that states none
PositionPool ==
    { [asset |-> "ETH",  amount |-> 1, price |-> 2, volatility |-> 3],
      [asset |-> "USDC", amount |-> 2, price |-> 1, volatility |-> 1],
      [asset |-> "BTC",  amount |-> 1, price |-> 3, volatility |-> 0],
      [asset |-> "USDT", amount |-> 0, price |-> 1, volatility |-> 1] }

\* sequences of positions in distinct assets, at most MaxPositions long
PositionLists ==
    UNION { { s \in [1..n -> PositionPool] :
                \A i, j \in 1..n : i # j => s[i].asset # s[j].asset } :
            n \in 0..MaxPositions }

\* confidence levels in percent, time horizons in days
ConfidenceLevels == {90, 95, 99}
TimeHorizons == {1, 10}

\* position.amount * position.price
PositionValue(pos) == pos.amount * pos.price

\* position.volatility || 0.3, in tenths
Volatility(pos) == IF pos.volatility = 0 THEN 3 ELSE pos.volatility

\* getAssetCorrelation, in hundredths: the table, either way round, else 0.3
AssetCorrelation(asset1, asset2) ==
    LET pair == {asset1, asset2}
    IN  IF asset1 = asset2 THEN 30
        ELSE IF pair = {"ETH", "BTC"} THEN 70
        ELSE IF pair = {"USDC", "USDT"} THEN 95
        ELSE IF pair = {"ETH", "USDC"} THEN 10
        ELSE IF pair = {"BTC", "USDC"} THEN 5
        ELSE 30

\* zScores of calculatePortfolioVaR, in thousandths
ZScores == [c \in {90, 95, 99} |->
              IF c = 90 THEN 1282 ELSE IF c = 95 THEN 1645 ELSE 2326]

\* zScore of calculateVaR, in thousandths
ZScoreOf(confidenceLevel) ==
    IF confidenceLevel = 95 THEN 1645
    ELSE IF confidenceLevel = 99 THEN 2326
    ELSE 1960

\* the pairs i < j of the correlation loop, with the weights they use
PairTerms(positions, total) ==
    { [ i |-> i, j |-> j,
        weight_i |-> [num |-> PositionValue(positions[i]), den |-> total],
        weight_j |-> [num |-> PositionValue(positions[j]), den |-> total],
        vol_i |-> Volatility(positions[i]),
        vol_j |-> Volatility(positions[j]),
        correlation |-> AssetCorrelation(positions[i].asset, positions[j].asset) ] :
      <<i, j>> \in { q \in (1..Len(positions)) \X (1..Len(positions)) : q[1] < q[2] } }

InitRisk ==
    /\ pc \in {"calculatePortfolioVaR", "calculateVaR"}
    /\ portfolio \in [ positions : PositionLists,
                        confidenceLevel : ConfidenceLevels,
                        timeHorizon : TimeHorizons ]
    \* calculatePortfolioVaR takes no confidence level
    /\ pc = "calculatePortfolioVaR" => portfolio.confidenceLevel = 95
    /\ portfolioValue = 0
    /\ usedWeights = <<>>
    /\ posCursor = 1
    /\ OptIdle /\ DrawdownIdle /\ YieldIdle /\ ErrorHandlerIdle
    /\ result = Pending

\* part_002 lines 84-91 and part_005 lines 230-234: one position of the
\* forEach; the weight divides by the sum as it stands after this position
AccumulatePosition ==
    /\ pc \in {"calculatePortfolioVaR", "calculateVaR"}
    /\ posCursor <= Len(portfolio.positions)
    /\ LET position == portfolio.positions[posCursor]
           positionValue == PositionValue(position)
       IN  /\ portfolioValue' = portfolioValue + positionValue
           /\ usedWeights' = Append(usedWeights,
                                [num |-> positionValue, den |-> portfolioValue',
                                 volatility |-> Volatility(position)])
    /\ posCursor' = posCursor + 1
    /\ UNCHANGED <<pc, portfolio, result, optVars, ddVars, yieldVars, errVars>>

\* part_002 lines 93-130: the correlation terms and the returned object
ReturnPortfolioVaR ==
    /\ pc = "calculatePortfolioVaR"
    /\ posCursor > Len(portfolio.positions)
    /\ result' = [ portfolioValue |-> portfolioValue,
                   timeHorizon |-> portfolio.timeHorizon,
                   weights |-> usedWeights,
                   pairs |-> PairTerms(portfolio.positions, portfolioValue),
                   zScores |-> ZScores ]
    /\ pc' = "done"
    /\ UNCHANGED <<riskVars, optVars, ddVars, yieldVars, errVars>>

\* part_005 lines 236-253: the returned object
ReturnVaR ==
    /\ pc = "calculateVaR"
    /\ posCursor > Len(portfolio.positions)
    /\ result' = [ totalValue |-> portfolioValue,
                   confidenceLevel |-> portfolio.confidenceLevel,
                   timeHorizon |-> portfolio.timeHorizon,
                   weights |-> usedWeights,
                   zScore |-> ZScoreOf(portfolio.confidenceLevel) ]
    /\ pc' = "done"
    /\ UNCHANGED <<riskVars, optVars, ddVars, yieldVars, errVars>>

NextRisk ==
    \/ AccumulatePosition
    \/ ReturnPortfolioVaR
    \/ ReturnVaR

SpecRisk == InitRisk /\ [][NextRisk]_vars

----------------------------------------------------------------------------
(* Claims about the VaR computations *)

\* the sum of a sequence of fractions, as a fraction; den 0 (NaN) is contagious
RECURSIVE SumOfWeights(_)
SumOfWeights(ws) ==
    IF ws = <<>> THEN [num |-> 0, den |-> 1]
    ELSE LET rest == SumOfWeights(Tail(ws))
             w == Head(ws)
         IN  [num |-> w.num * rest.den + rest.num * w.den, den |-> w.den * rest.den]

TotalValue(positions) ==
    SumSeq([k \in 1..Len(positions) |-> PositionValue(positions[k])])

\* C4: for every portfolio with totalValue > 0, the weight each position
\* enters the variance sum with is value_i / totalValue, totalValue being the
\* sum over all positions, so that the weights used sum to 1.
C4_WeightsSumToOne ==
    (pc = "done" /\ TotalValue(portfolio.positions) > 0) =>
        /\ \A k \in 1..Len(portfolio.positions) :
              /\ result.weights[k].den # 0
              /\ RatEq(result.weights[k],
                       [num |-> PositionValue(portfolio.positions[k]),
                        den |-> TotalValue(portfolio.positions)])
        /\ LET total == SumOfWeights(result.weights)
           IN  total.den # 0 /\ total.num = total.den

\* C8: on a portfolio without positions the VaR computation ends in a
\* ValidationError and returns no VaR result.
C8_EmptyPortfolioIsValidationError ==
    (pc = "done" /\ portfolio.positions = <<>>) =>
        /\ "thrown" \in DOMAIN result
        /\ result.thrown = "ValidationError"

\* the z-score the contract's table gives a confidence level, in thousandths
TableZScore(confidenceLevel) ==
    CASE confidenceLevel = 90 -> 1282
      [] confidenceLevel = 95 -> 1645
      [] confidenceLevel = 99 -> 2326

\* C11: for every portfolio and each of the confidence levels 0.90, 0.95 and
\* 0.99, the VaR is computed with the z-score of the table: 1.282, 1.645 and
\* 2.326 (portfolios of positive value; calculateVaR multiplies by its one
\* zScore, calculatePortfolioVaR by one zScore for each level).
C11_ZScoreOfTable ==
    (pc = "done" /\ TotalValue(portfolio.positions) > 0
       /\ portfolio.confidenceLevel \in {90, 95, 99}) =>
        /\ "zScore" \in DOMAIN result =>
              result.zScore = TableZScore(portfolio.confidenceLevel)
        /\ "zScores" \in DOMAIN result =>
              \A c \in {90, 95, 99} : result.zScores[c] = TableZScore(c)

----------------------------------------------------------------------------
(* YieldCalculator: bignumber.js arithmetic *)
(* A finite BigNumber is an integer count of 10^-8 (Unit is 1.0).  The     *)
(* library divides to DECIMAL_PLACES = 20 decimals; the model divides to 8 *)
(* and also rounds each product of a power to 8, where the library keeps   *)
(* the product of an integer power exact.                                  *)
(* A percentage is held as its hundredth: multipliedBy(100) and            *)
(* dividedBy(100) change how the integer is read, not the integer.         *)

Limb == 10000
Unit == Limb * Limb

Sign(x) == IF x < 0 THEN -1 ELSE 1

BN(v) == [kind |-> "finite", value |-> v]
BNInfinity == [kind |-> "Infinity", value |-> 0]
BNNaN == [kind |-> "NaN", value |-> 0]

\* a / b rounded half up (away from zero), b # 0
DivRound(a, b) ==
    Sign(a) * Sign(b)
      * ((Abs(a) \div Abs(b)) + (IF 2 * (Abs(a) % Abs(b)) >= Abs(b) THEN 1 ELSE 0))

\* x * y / Unit rounded half up, by limbs so that no product passes 2^31
MulFix(x, y) ==
    LET xh == Abs(x) \div Limb
        xl == Abs(x) % Limb
        yh == Abs(y) \div Limb
        yl == Abs(y) % Limb
        mid == xh * yl + xl * yh
    IN  Sign(x) * Sign(y)
          * (xh * yh + mid \div Limb
               + ((mid % Limb) * Limb + xl * yl + Unit \div 2) \div Unit)

\* the first n decimals of r / y (0 <= r < y), and the remainder left
RECURSIVE Decimals(_, _, _)
Decimals(r, y, n) ==
    IF n = 0 THEN [digits |-> 0, rem |-> r]
    ELSE LET rest == Decimals((r * 10) % y, y, n - 1)
         IN  [digits |-> ((r * 10) \div y) * (10 ^ (n - 1)) + rest.digits,
              rem |-> rest.rem]

\* x * Unit / y rounded half up, y # 0, by long division
DivFix(x, y) ==
    LET a == Abs(x)
        b == Abs(y)
        frac == Decimals(a % b, b, 8)
    IN  Sign(x) * Sign(y)
          * ((a \div b) * Unit + frac.digits + (IF 2 * frac.rem >= b THEN 1 ELSE 0))

\* x ^ n for a whole n >= 0, by squaring
RECURSIVE PowFix(_, _)
PowFix(x, n) ==
    IF n = 0 THEN Unit
    ELSE IF n % 2 = 0
         THEN LET h == PowFix(x, n \div 2) IN MulFix(h, h)
         ELSE MulFix(x, PowFix(x, n - 1))

----------------------------------------------------------------------------
(* YieldCalculator: the operations *)

\* calculateAPY(apr, compoundFrequency): lines 523-528.
\*   aprDecimal   = apr / 100
\*   compoundRate = aprDecimal / compoundFrequency
\*   apy          = (compoundRate + 1) ^ compoundFrequency - 1, times 100
\* No argument is tested.  Dividing by 0 gives Infinity or NaN, and the
\* library's pow answers Math.pow(x, 0) = 1 for those; a negative exponent
\* gives 1 / x^|n|.
\* compoundRate.minus(1) in place of compoundRate.plus(1)
CalculateAPYRateMinusOne(apr, compoundFrequency) ==
    IF compoundFrequency <= 0 THEN BN(0)
    ELSE BN(PowFix(Unit - DivRound(DivRound(apr, 100), compoundFrequency),
                   compoundFrequency) - Unit)

\* the closing minus(1) left out
CalculateAPYNoMinusOne(apr, compoundFrequency) ==
    IF compoundFrequency <= 0 THEN BN(0)
    ELSE BN(PowFix(DivRound(DivRound(apr, 100), compoundFrequency) + Unit,
                   compoundFrequency))

\* Here apr is a fixed-point count of 10^-8 percent, so that an apr below
\* the resolution of dividedBy can be stated: 10^-8 percent in the model is
\* what 10^-20 percent is to the library.
CalculateAPYOfDecimal(apr, compoundFrequency) ==
    LET aprDecimal == DivRound(apr, 100)
    IN  IF compoundFrequency = 0 THEN BN(0)
        ELSE LET compoundRate == DivRound(aprDecimal, compoundFrequency)
                 base == compoundRate + Unit
             IN  IF compoundFrequency > 0
                 THEN BN(PowFix(base, compoundFrequency) - Unit)
                 ELSE LET p == PowFix(base, -compoundFrequency)
                      IN  IF p = 0 THEN BNInfinity
                          ELSE BN(DivFix(Unit, p) - Unit)

\* calculateAPY for an apr of whole percents
CalculateAPY(apr, compoundFrequency) ==
    CalculateAPYOfDecimal(apr * Unit, compoundFrequency)

\* const frequencies = [1, 4, 12, 52, 365]
Frequencies == <<1, 4, 12, 52, 365>>

\* netYield of one candidate: principal * apy / 100 - gasCost * freq
NetYield(apr, gasCost, principal, freq) ==
    principal * CalculateAPY(apr, freq).value - gasCost * freq

\* the comparison of line 591 turned round
CompoundingStepLess(best, apr, gasCost, principal, freq) ==
    LET netYield == NetYield(apr, gasCost, principal, freq)
    IN  IF netYield < best.maxNetYield
        THEN [optimalFreq |-> freq, maxNetYield |-> netYield]
        ELSE best

\* lines 584-595: the body of frequencies.forEach
CompoundingStep(best, apr, gasCost, principal, freq) ==
    LET netYield == NetYield(apr, gasCost, principal, freq)
    IN  IF netYield > best.maxNetYield
        THEN [optimalFreq |-> freq, maxNetYield |-> netYield]
        ELSE best

\* lines 581-582: let optimalFreq = 1; let maxNetYield = new BigNumber(0)
CompoundingStart == [optimalFreq |-> 1, maxNetYield |-> 0]

\* calculateOptimalCompounding as a function of its arguments
RECURSIVE CompoundingFrom(_, _, _, _, _)
CompoundingFrom(best, k, apr, gasCost, principal) ==
    IF k > Len(Frequencies) THEN best
    ELSE CompoundingFrom(CompoundingStep(best, apr, gasCost, principal, Frequencies[k]),
                         k + 1, apr, gasCost, principal)

CalculateOptimalCompounding(apr, gasCost, principal) ==
    LET best == CompoundingFrom(CompoundingStart, 1, apr, gasCost, principal)
    IN  [optimalFrequency |-> best.optimalFreq, maxNetYield |-> best.maxNetYield]

\* calculatePoolYield(poolData): lines 609-638; poolFees in basis points.
\* No argument is tested: a totalValue of 0 divides annualFees by zero.
CalculatePoolYield(poolData) ==
    LET totalValue == poolData.token0Amount * poolData.token0Price
                        + poolData.token1Amount * poolData.token1Price
        dailyFees == DivRound(poolData.tradingVolume * poolData.poolFees * Limb, 365)
        annualFees == dailyFees * 365
        feeAPY == IF totalValue = 0
                  THEN (IF annualFees = 0 THEN BNNaN ELSE BNInfinity)
                  ELSE BN(DivRound(annualFees, totalValue))
    IN  [ totalValue |-> totalValue,
          dailyFees |-> dailyFees,
          annualFees |-> annualFees,
          feeAPY |-> feeAPY,
          \* estimateImpermanentLoss: poolData has no priceRatio
          estimatedImpermanentLoss |-> "0" ]

\* calculateFarmingYield(params): lines 535-570.  principal and apr are
\* whole, fees and impermanentLoss counts of 10^-8, duration in days.
\*   periods = compoundFrequency * durationYears.toNumber()
\* is a whole number exactly when 365 divides compoundFrequency * duration
\* (the rounding of the double product is not modelled); pow throws
\* 'BigNumber Error: Exponent not an integer' on any other exponent.
NetOfCostsClamped(grossYield, fees, impermanentLoss) ==
    LET net == grossYield - fees - impermanentLoss
    IN  IF net < 0 THEN 0 ELSE net

\* line 556: grossYield.minus(fees).minus(impermanentLoss)
NetOfCosts(grossYield, fees, impermanentLoss) ==
    grossYield - fees - impermanentLoss

CalculateFarmingYield(params) ==
    LET principalBN == params.principal * Unit
        aprBN == params.apr * (Unit \div 100)
        compoundRate == DivRound(aprBN, params.compoundFrequency)
        wholePeriods == (params.compoundFrequency * params.duration) % 365 = 0
        periods == (params.compoundFrequency * params.duration) \div 365
        finalAmount == params.principal * PowFix(compoundRate + Unit, periods)
        grossYield == finalAmount - principalBN
    IN  IF ~wholePeriods
        THEN [thrown |-> "BigNumber Error"]
        ELSE [ principal |-> principalBN,
               grossYield |-> grossYield,
               netYield |-> NetOfCosts(grossYield, params.fees, params.impermanentLoss),
               finalAmount |-> finalAmount,
               effectiveAPY |-> CalculateAPY(params.apr, params.compoundFrequency),
               fees |-> params.fees,
               impermanentLoss |-> params.impermanentLoss,
               duration |-> params.duration ]

\* the calls made: gasCost in 10^-8, principal whole; the apr of a
\* calculateAPY call in 10^-8 percent, every other apr in whole percents
APYCalls ==
    [ op : {"calculateAPY"},
      apr : {-5 * Unit, 0, 1, 2, 49, 50, 5 * Unit, 10 * Unit, 12 * Unit},
      compoundFrequency : {-1, 0, 1, 4, 12, 52, 365} ]

Durations == {30, 73, 146, 365, 730}

FarmingCalls ==
    [ op : {"calculateFarmingYield"},
      principal : {1, 10},
      apr : {0, 5, 15},
      duration : Durations,
      compoundFrequency : {1, 5, 12, 365},
      fees : {0, Unit \div 2, 3 * Unit},
      impermanentLoss : {0, Unit} ]

GasCosts == {0, 100, 10000, 1000000, 5000000}

CompoundingCalls ==
    [ op : {"calculateOptimalCompounding"},
      apr : {0, 5, 10, 12},
      gasCost : GasCosts,
      principal : {1, 10, 100} ]

PoolCalls ==
    [ op : {"calculatePoolYield"},
      token0Amount : {0, 10},
      token1Amount : {0, 20},
      token0Price : {1, 2},
      token1Price : {1},
      poolFees : {0, 30},
      tradingVolume : {0, 1000} ]

InitYield ==
    /\ call \in APYCalls \cup CompoundingCalls \cup PoolCalls \cup FarmingCalls
    /\ pc = call.op
    /\ freqCursor = 1
    /\ optimalFreq = CompoundingStart.optimalFreq
    /\ maxNetYield = CompoundingStart.maxNetYield
    /\ OptIdle /\ DrawdownIdle /\ RiskIdle /\ ErrorHandlerIdle
    /\ result = Pending

ReturnAPY ==
    /\ pc = "calculateAPY"
    /\ result' = CalculateAPYOfDecimal(call.apr, call.compoundFrequency)
    /\ pc' = "done"
    /\ UNCHANGED <<yieldVars, optVars, ddVars, riskVars, errVars>>

\* one candidate of frequencies.forEach
TryFrequency ==
    /\ pc = "calculateOptimalCompounding"
    /\ freqCursor <= Len(Frequencies)
    /\ LET best == CompoundingStep([optimalFreq |-> optimalFreq,
                                    maxNetYield |-> maxNetYield],
                                   call.apr, call.gasCost, call.principal,
                                   Frequencies[freqCursor])
       IN  /\ optimalFreq' = best.optimalFreq
           /\ maxNetYield' = best.maxNetYield
    /\ freqCursor' = freqCursor + 1
    /\ UNCHANGED <<pc, call, result, optVars, ddVars, riskVars, errVars>>

\* lines 597-601
ReturnOptimalCompounding ==
    /\ pc = "calculateOptimalCompounding"
    /\ freqCursor > Len(Frequencies)
    /\ result' = [optimalFrequency |-> optimalFreq, maxNetYield |-> maxNetYield]
    /\ pc' = "done"
    /\ UNCHANGED <<yieldVars, optVars, ddVars, riskVars, errVars>>

ReturnPoolYield ==
    /\ pc = "calculatePoolYield"
    /\ result' = CalculatePoolYield(call)
    /\ pc' = "done"
    /\ UNCHANGED <<yieldVars, optVars, ddVars, riskVars, errVars>>

ReturnFarmingYield ==
    /\ pc = "calculateFarmingYield"
    /\ result' = CalculateFarmingYield(call)
    /\ pc' = "done"
    /\ UNCHANGED <<yieldVars, optVars, ddVars, riskVars, errVars>>

NextYield ==
    \/ ReturnAPY
    \/ ReturnFarmingYield
    \/ TryFrequency
    \/ ReturnOptimalCompounding
    \/ ReturnPoolYield

SpecYield == InitYield /\ [][NextYield]_vars

----------------------------------------------------------------------------
(* Claims about YieldCalculator *)

CompoundingDone == pc = "done" /\ call.op = "calculateOptimalCompounding"

FrequencySet == {Frequencies[k] : k \in 1..Len(Frequencies)}

\* C5: calculateOptimalCompounding returns the candidate whose netYield is
\* greatest among the five, the lowest one on ties, and the returned
\* maxNetYield is the netYield of the returned optimalFrequency, also when
\* every candidate's netYield is zero or negative.
C5_ReturnsGreatestNetYield ==
    CompoundingDone =>
        LET ny(f) == NetYield(call.apr, call.gasCost, call.principal, f)
        IN  /\ result.optimalFrequency \in FrequencySet
            /\ \A f \in FrequencySet : ny(f) <= ny(result.optimalFrequency)
            /\ \A f \in FrequencySet :
                  f < result.optimalFrequency => ny(f) < ny(result.optimalFrequency)
            /\ result.maxNetYield = ny(result.optimalFrequency)

\* C6: for fixed apr and principal a higher gas cost never gives a higher
\* optimal frequency: the frequency returned for the call's gasCost is at
\* most the one returned for any lower gasCost.
C6_HigherGasNeverHigherFrequency ==
    CompoundingDone =>
        \A lower \in GasCosts :
            lower <= call.gasCost =>
                result.optimalFrequency
                  <= CalculateOptimalCompounding(call.apr, lower,
                                                 call.principal).optimalFrequency

\* C6 witness: a call whose gas cost has moved the optimum to a lower
\* frequency than free compounding has, but not down to the first candidate.
C6_Witness ==
    /\ CompoundingDone
    /\ call.gasCost > 0
    /\ result.optimalFrequency > 1
    /\ result.optimalFrequency
          < CalculateOptimalCompounding(call.apr, 0, call.principal).optimalFrequency

\* C7: calculateAPY with a negative apr, or with a compoundFrequency <= 0,
\* ends in a ValidationError and never in a returned number.
C7_RejectsOutOfContractInput ==
    (pc = "done" /\ call.op = "calculateAPY"
       /\ (call.apr < 0 \/ call.compoundFrequency <= 0)) =>
        /\ "thrown" \in DOMAIN result
        /\ result.thrown = "ValidationError"

\* C9: calculatePoolYield with a totalValue of 0 ends in a ValidationError
\* instead of returning a feeAPY.
C9_ZeroTotalValueIsValidationError ==
    (pc = "done" /\ call.op = "calculatePoolYield"
       /\ call.token0Amount * call.token0Price
             + call.token1Amount * call.token1Price = 0) =>
        /\ "thrown" \in DOMAIN result
        /\ result.thrown = "ValidationError"

FarmingReturned ==
    pc = "done" /\ call.op = "calculateFarmingYield" /\ "netYield" \in DOMAIN result

\* C12: the netYield calculateFarmingYield returns is grossYield - fees -
\* impermanentLoss and is never clamped: it is negative whenever fees +
\* impermanentLoss exceed grossYield, and it equals grossYield when fees and
\* impermanentLoss are both 0.
C12_NetYieldNotClamped ==
    FarmingReturned =>
        /\ result.netYield = result.grossYield - call.fees - call.impermanentLoss
        /\ call.fees + call.impermanentLoss > result.grossYield => result.netYield < 0
        /\ (call.fees = 0 /\ call.impermanentLoss = 0) =>
              result.netYield = result.grossYield

\* C12 witness: a returned farming yield whose costs exceed a positive gross
\* yield, so that the net yield is negative
C12_Witness ==
    /\ FarmingReturned
    /\ result.grossYield > 0
    /\ call.fees + call.impermanentLoss > result.grossYield
    /\ result.netYield < 0

\* C13: for fixed principal > 0, apr > 0 and compoundFrequency > 0 the
\* grossYield of calculateFarmingYield is strictly increasing in the
\* duration: the call returns a grossYield, and every shorter duration
\* returns a strictly smaller one.
C13_GrossYieldIncreasesWithDuration ==
    (pc = "done" /\ call.op = "calculateFarmingYield"
       /\ call.principal > 0 /\ call.apr > 0 /\ call.compoundFrequency > 0) =>
        /\ "grossYield" \in DOMAIN result
        /\ \A d1 \in Durations :
              d1 < call.duration =>
                  LET shorter == CalculateFarmingYield([call EXCEPT !.duration = d1])
                  IN  /\ "grossYield" \in DOMAIN shorter
                      /\ shorter.grossYield < result.grossYield

APYReturned ==
    pc = "done" /\ call.op = "calculateAPY" /\ call.compoundFrequency > 0

AprValues == {c.apr : c \in APYCalls}

\* the per-period rate apr / 100 / f as dividedBy leaves it
RoundedCompoundRate(apr, f) == DivRound(DivRound(apr, 100), f)

\* C14 as stated: for fixed compoundFrequency f > 0, calculateAPY is strictly
\* increasing in apr over apr >= 0: every smaller apr >= 0 has a strictly
\* smaller APY.
C14_Original ==
    (APYReturned /\ call.apr >= 0) =>
        \A a1 \in AprValues :
            (0 <= a1 /\ a1 < call.apr) =>
                CalculateAPYOfDecimal(a1, call.compoundFrequency).value < result.value

\* C14: for fixed compoundFrequency f > 0, calculateAPY never decreases as
\* apr grows over apr >= 0, and it is strictly increasing between any two
\* aprs whose per-period rates apr / 100 / f still differ once dividedBy has
\* rounded them to its decimal places.
C14_IncreasingUpToRounding ==
    (APYReturned /\ call.apr >= 0) =>
        \A a1 \in AprValues :
            (0 <= a1 /\ a1 < call.apr) =>
                LET f == call.compoundFrequency
                    lower == CalculateAPYOfDecimal(a1, f).value
                IN  /\ lower <= result.value
                    /\ RoundedCompoundRate(a1, f) # RoundedCompoundRate(call.apr, f)
                          => lower < result.value

\* C14 witness: daily compounding of an apr that is above a positive apr of
\* a different rate and strictly above it in APY
C14_Witness ==
    /\ APYReturned
    /\ call.compoundFrequency = 365
    /\ \E a1 \in AprValues :
          /\ 0 < a1 /\ a1 < call.apr
          /\ RoundedCompoundRate(a1, 365) # RoundedCompoundRate(call.apr, 365)
          /\ 0 < CalculateAPYOfDecimal(a1, 365).value
          /\ CalculateAPYOfDecimal(a1, 365).value < result.value

\* C15: for every compoundFrequency f > 0, calculateAPY(0, f) is 0.
C15_ZeroAprZeroApy ==
    (APYReturned /\ call.apr = 0) => result = BN(0)

\* C15 witness: calculateAPY(0, 365) has returned 0
C15_Witness ==
    /\ APYReturned
    /\ call.apr = 0
    /\ call.compoundFrequency = 365
    /\ result.kind = "finite" /\ result.value = 0

----------------------------------------------------------------------------
(* BaseYieldCalculator: the arithmetic of JavaScript numbers *)
(* The one-call analytics below compute in doubles and report through      *)
(* toFixed, and what they promise depends on how each operation rounds.    *)
(* A number is sign * m * 2^e with m = 0 or 2^(p-1) <= m < 2^p, and every  *)
(* operation rounds its exact result to the nearest such number, ties to   *)
(* the even significand, as IEEE 754 does.  A double has p = 53; the model *)
(* keeps SignificandBits = 13.  Like 53, 13 is 1 more than a multiple of  *)
(* 4, and the binary expansions of the tenths and fifths the code writes  *)
(* (0.1, 0.2, 0.5, 0.8) repeat with period 4, so these literals and the   *)
(* results that land on them round in the same direction as they do in a  *)
(* double: 0.8 is rounded up, and 0.8 - 1 is in magnitude below 0.2.      *)
(* Infinity and NaN are not modelled: divisors are never 0 on the inputs  *)
(* drawn.                                                                 *)

SignificandBits == 13

FZero == [s |-> 1, m |-> 0, e |-> 0]

RECURSIVE BitLength(_)
BitLength(n) == IF n = 0 THEN 0 ELSE 1 + BitLength(n \div 2)

\* sign * n * 2^e rounded to the nearest number; sticky says that the exact
\* value lies strictly above n * 2^e in magnitude, by less than 2^e
RoundNearestEven(sign, n, e, sticky) ==
    IF n = 0 THEN FZero
    ELSE LET k == BitLength(n) - SignificandBits
         IN  IF k <= 0
             THEN [s |-> sign, m |-> n * 2 ^ (-k), e |-> e + k]
             ELSE LET q == n \div 2 ^ k
                      rem == n % 2 ^ k
                      half == 2 ^ (k - 1)
                      up == rem > half \/ (rem = half /\ (sticky \/ q % 2 = 1))
                      r == IF up THEN q + 1 ELSE q
                  IN  IF r = 2 ^ SignificandBits
                      THEN [s |-> sign, m |-> 2 ^ (SignificandBits - 1), e |-> e + k + 1]
                      ELSE [s |-> sign, m |-> r, e |-> e + k]

\* a whole number as a JavaScript number
FInt(n) == RoundNearestEven(Sign(n), Abs(n), 0, FALSE)

FNeg(x) == IF x.m = 0 THEN x ELSE [x EXCEPT !.s = -x.s]

FAbs(x) == [x EXCEPT !.s = 1]

\* x * y
FMul(x, y) == RoundNearestEven(x.s * y.s, x.m * y.m, x.e + y.e, FALSE)

\* x / y, y # 0
FDiv(x, y) ==
    LET n == x.m * 2 ^ (SignificandBits + 1)
    IN  RoundNearestEven(x.s * y.s, n \div y.m,
                         x.e - y.e - (SignificandBits + 1), n % y.m # 0)

\* x + y; an operand below a quarter of the other's last place changes nothing
FAdd(x, y) ==
    IF x.m = 0 THEN y
    ELSE IF y.m = 0 THEN x
    ELSE IF x.e - y.e > SignificandBits + 1 THEN x
    ELSE IF y.e - x.e > SignificandBits + 1 THEN y
    ELSE LET e0 == Min2(x.e, y.e)
             n == x.s * x.m * 2 ^ (x.e - e0) + y.s * y.m * 2 ^ (y.e - e0)
         IN  RoundNearestEven(Sign(n), Abs(n), e0, FALSE)

FSub(x, y) == FAdd(x, FNeg(y))

\* x > y
FGreater(x, y) == LET d == FSub(x, y) IN d.m # 0 /\ d.s = 1

\* the whole part of the square root of n
RECURSIVE ISqrt(_)
ISqrt(n) ==
    IF n < 2 THEN n
    ELSE LET r == 2 * ISqrt(n \div 4)
         IN  IF (r + 1) * (r + 1) <= n THEN r + 1 ELSE r

\* Math.sqrt(x), x >= 0
FSqrt(x) ==
    IF x.m = 0 THEN FZero
    ELSE LET j == IF (x.e - (SignificandBits + 1)) % 2 = 0
                  THEN SignificandBits + 1 ELSE SignificandBits + 2
             n == x.m * 2 ^ j
             root == ISqrt(n)
         IN  RoundNearestEven(1, root, (x.e - j) \div 2, root * root # n)

\* x.toFixed(digits): the decimal nearest to x, the larger one on a tie, as
\* a count of 10^-digits with the sign the string shows
ToFixed(x, digits) ==
    LET num == x.m * 10 ^ digits
        count == IF x.e >= 0 THEN num * 2 ^ x.e
                 ELSE IF -x.e >= 30 THEN 0
                 ELSE (2 * num + 2 ^ (-x.e)) \div (2 * 2 ^ (-x.e))
    IN  [negative |-> x.s = -1, count |-> count]

----------------------------------------------------------------------------
(* BaseYieldCalculator: calculateImpermanentLoss, calculateSharpeRatio and *)
(* calculateAdvancedImpermanentLoss                                        *)

\* (2 * Math.sqrt(priceRatio)) / (2 + priceRatio) - 1
ImpermanentLossTwoPlus(priceRatio) ==
    FSub(FDiv(FMul(FInt(2), FSqrt(priceRatio)), FAdd(FInt(2), priceRatio)), FInt(1))

\* part_005 line 80 (and line 480): the loss of a price ratio
ImpermanentLossOf(priceRatio) ==
    FSub(FDiv(FMul(FInt(2), FSqrt(priceRatio)), FAdd(FInt(1), priceRatio)), FInt(1))

\* calculateImpermanentLoss(initialPrice, currentPrice): part_005 lines 78-89
CalculateImpermanentLoss(initialPrice, currentPrice) ==
    LET priceRatio == FDiv(currentPrice, initialPrice)
        impermanentLoss == ImpermanentLossOf(priceRatio)
        lossPercentage == FAbs(FMul(impermanentLoss, FInt(100)))
    IN  [ priceChange |-> ToFixed(FMul(FSub(priceRatio, FInt(1)), FInt(100)), 2),
          impermanentLoss |-> ToFixed(FMul(impermanentLoss, FInt(100)), 2),
          lossPercentage |-> ToFixed(lossPercentage, 2),
          recommendation |-> IF FGreater(lossPercentage, FInt(5))
                             THEN "Consider rebalancing" ELSE "Position stable" ]

\* the number a decimal literal n / d denotes (d a power of 10)
FNum(n, d) == FDiv(FInt(n), FInt(d))

\* calculateSharpeRatio(returns, riskFreeRate, volatility): part_005 lines
\* 262-279, and getSharpeInterpretation: lines 286-292

\* the thresholds of lines 267-270 taken with >= in place of >
SharpeRatingInclusive(sharpeRatio) ==
    IF ~FGreater(FInt(2), sharpeRatio) THEN "Excellent"
    ELSE IF ~FGreater(FInt(1), sharpeRatio) THEN "Good"
    ELSE IF ~FGreater(FNum(5, 10), sharpeRatio) THEN "Fair"
    ELSE "Poor"

\* lines 267-270
SharpeRating(sharpeRatio) ==
    IF FGreater(sharpeRatio, FInt(2)) THEN "Excellent"
    ELSE IF FGreater(sharpeRatio, FInt(1)) THEN "Good"
    ELSE IF FGreater(sharpeRatio, FNum(5, 10)) THEN "Fair"
    ELSE "Poor"

GetSharpeInterpretation(ratio) ==
    IF FGreater(ratio, FInt(2)) THEN "Outstanding risk-adjusted returns"
    ELSE IF FGreater(ratio, FInt(1)) THEN "Good risk-adjusted returns"
    ELSE IF FGreater(ratio, FNum(5, 10)) THEN "Acceptable risk-adjusted returns"
    ELSE IF FGreater(ratio, FZero) THEN "Below average risk-adjusted returns"
    ELSE "Poor risk-adjusted returns - consider alternatives"

\* returns + riskFreeRate in place of the difference
ExcessReturnSum(returns, riskFreeRate) == FAdd(returns, riskFreeRate)

\* line 263
ExcessReturn(returns, riskFreeRate) == FSub(returns, riskFreeRate)

\* line 264: the ratio before it is formatted
SharpeOf(returns, riskFreeRate, volatility) ==
    FDiv(ExcessReturn(returns, riskFreeRate), volatility)

CalculateSharpeRatio(returns, riskFreeRate, volatility) ==
    LET excessReturn == ExcessReturn(returns, riskFreeRate)
        sharpeRatio == SharpeOf(returns, riskFreeRate, volatility)
    IN  [ sharpeRatio |-> ToFixed(sharpeRatio, 3),
          excessReturn |-> ToFixed(excessReturn, 2),
          volatility |-> ToFixed(volatility, 2),
          rating |-> SharpeRating(sharpeRatio),
          interpretation |-> GetSharpeInterpretation(sharpeRatio) ]

\* lines 465-470: the scenarios used when the caller gives none
DefaultScenarios ==
    << [name |-> "Conservative", token0Change |-> FNum(1, 10), token1Change |-> FNum(-5, 100)],
       [name |-> "Moderate", token0Change |-> FNum(25, 100), token1Change |-> FNum(-15, 100)],
       [name |-> "Aggressive", token0Change |-> FNum(5, 10), token1Change |-> FNum(-3, 10)],
       [name |-> "Extreme", token0Change |-> FInt(1), token1Change |-> FNum(-5, 10)] >>

\* lines 474-480: the loss of one scenario, before it is formatted
ScenarioLoss(poolData, scenario) ==
    LET initialRatio == FDiv(poolData.token0Price, poolData.token1Price)
        newToken0Price == FMul(poolData.token0Price, FAdd(FInt(1), scenario.token0Change))
        newToken1Price == FMul(poolData.token1Price, FAdd(FInt(1), scenario.token1Change))
        newRatio == FDiv(newToken0Price, newToken1Price)
        priceRatioChange == FDiv(newRatio, initialRatio)
    IN  ImpermanentLossOf(priceRatioChange)

\* line 499
Severity(impermanentLoss) ==
    IF FGreater(FAbs(impermanentLoss), FNum(2, 10)) THEN "High"
    ELSE IF FGreater(FAbs(impermanentLoss), FNum(1, 10)) THEN "Medium"
    ELSE "Low"

\* a composition whose second amount is k / newRatio
NewAmountsByRatio(poolData, scenario) ==
    LET newToken0Price == FMul(poolData.token0Price, FAdd(FInt(1), scenario.token0Change))
        newToken1Price == FMul(poolData.token1Price, FAdd(FInt(1), scenario.token1Change))
        newRatio == FDiv(newToken0Price, newToken1Price)
        k == FMul(poolData.token0Amount, poolData.token1Amount)
        newToken0Amount == FSqrt(FMul(k, newRatio))
    IN  [ k |-> k,
          newToken0Amount |-> newToken0Amount,
          newToken1Amount |-> FDiv(k, newRatio) ]

\* lines 474-476 and 483-485: the pool composition of one scenario
NewAmounts(poolData, scenario) ==
    LET newToken0Price == FMul(poolData.token0Price, FAdd(FInt(1), scenario.token0Change))
        newToken1Price == FMul(poolData.token1Price, FAdd(FInt(1), scenario.token1Change))
        newRatio == FDiv(newToken0Price, newToken1Price)
        k == FMul(poolData.token0Amount, poolData.token1Amount)
        newToken0Amount == FSqrt(FMul(k, newRatio))
    IN  [ k |-> k,
          newToken0Amount |-> newToken0Amount,
          newToken1Amount |-> FDiv(k, newToken0Amount) ]

\* lines 473-501: the body of scenarios.map
ScenarioResult(poolData, scenario) ==
    LET newToken0Price == FMul(poolData.token0Price, FAdd(FInt(1), scenario.token0Change))
        newToken1Price == FMul(poolData.token1Price, FAdd(FInt(1), scenario.token1Change))
        impermanentLoss == ScenarioLoss(poolData, scenario)
        newToken0Amount == NewAmounts(poolData, scenario).newToken0Amount
        newToken1Amount == NewAmounts(poolData, scenario).newToken1Amount
        poolValue == FAdd(FMul(newToken0Amount, newToken0Price),
                          FMul(newToken1Amount, newToken1Price))
        holdValue == FAdd(FMul(poolData.token0Amount, newToken0Price),
                          FMul(poolData.token1Amount, newToken1Price))
    IN  [ scenario |-> scenario.name,
          impermanentLoss |-> ToFixed(FMul(FAbs(impermanentLoss), FInt(100)), 2),
          poolValue |-> ToFixed(poolValue, 2),
          holdValue |-> ToFixed(holdValue, 2),
          difference |-> ToFixed(FSub(poolValue, holdValue), 2),
          token0Price |-> ToFixed(newToken0Price, 4),
          token1Price |-> ToFixed(newToken1Price, 4),
          severity |-> Severity(impermanentLoss) ]

\* one High scenario is enough for an overall High
AssessOneHighIsHigh(scenarios) ==
    LET highRiskScenarios ==
            Cardinality({i \in 1..Len(scenarios) : scenarios[i].severity = "High"})
        mediumRiskScenarios ==
            Cardinality({i \in 1..Len(scenarios) : scenarios[i].severity = "Medium"})
    IN  [ overallRisk |-> IF highRiskScenarios >= 1 THEN "High"
                          ELSE IF mediumRiskScenarios >= 2 THEN "Medium"
                          ELSE "Low",
          highRiskScenarios |-> highRiskScenarios,
          mediumRiskScenarios |-> mediumRiskScenarios ]

\* assessImpermanentLossRisk(scenarios): lines 521-540
AssessImpermanentLossRisk(scenarios) ==
    LET highRiskScenarios ==
            Cardinality({i \in 1..Len(scenarios) : scenarios[i].severity = "High"})
        mediumRiskScenarios ==
            Cardinality({i \in 1..Len(scenarios) : scenarios[i].severity = "Medium"})
    IN  [ overallRisk |-> IF highRiskScenarios >= 2 THEN "High"
                          ELSE IF highRiskScenarios >= 1 \/ mediumRiskScenarios >= 2
                               THEN "Medium"
                          ELSE "Low",
          highRiskScenarios |-> highRiskScenarios,
          mediumRiskScenarios |-> mediumRiskScenarios ]

\* calculateAdvancedImpermanentLoss(poolData, priceScenarios): lines 459-513
CalculateAdvancedImpermanentLoss(poolData, priceScenarios) ==
    LET initialValue == FAdd(FMul(poolData.token0Amount, poolData.token0Price),
                             FMul(poolData.token1Amount, poolData.token1Price))
        scenarios == IF Len(priceScenarios) > 0 THEN priceScenarios ELSE DefaultScenarios
        results == [i \in 1..Len(scenarios) |-> ScenarioResult(poolData, scenarios[i])]
    IN  [ initialValue |-> ToFixed(initialValue, 2),
          scenarios |-> results,
          riskAssessment |-> AssessImpermanentLossRisk(results) ]

\* the calls made
MaxPriceRatioTerm == 6

LossCalls ==
    [ op : {"calculateImpermanentLoss"},
      initialPrice : {FInt(n) : n \in 1..MaxPriceRatioTerm},
      currentPrice : {FInt(n) : n \in 1..MaxPriceRatioTerm} ]

SharpeCalls ==
    [ op : {"calculateSharpeRatio"},
      returns : {FInt(2), FInt(7), FInt(12), FInt(15), FInt(22), FInt(27)},
      riskFreeRate : {FZero, FInt(2), FNum(2001, 1000), FInt(5)},
      volatility : {FInt(5), FInt(10), FInt(20)} ]

MaxScenarios == 3

ScenarioPool ==
    { [name |-> "Conservative", token0Change |-> FNum(1, 10), token1Change |-> FNum(-5, 100)],
      [name |-> "Extreme", token0Change |-> FInt(1), token1Change |-> FNum(-5, 10)],
      [name |-> "Tripled", token0Change |-> FInt(2), token1Change |-> FZero],
      [name |-> "Rally", token0Change |-> FInt(3), token1Change |-> FNum(-5, 10)],
      [name |-> "Crash", token0Change |-> FNum(-9, 10), token1Change |-> FZero],
      [name |-> "Flat", token0Change |-> FZero, token1Change |-> FZero] }

ScenarioLists == UNION { [1..n -> ScenarioPool] : n \in 0..MaxScenarios }

PoolStates ==
    [ token0Amount : {FInt(10)},
      token1Amount : {FInt(20), FInt(250)},
      token0Price : {FInt(2), FInt(25)},
      token1Price : {FInt(1)} ]

AdvancedCalls ==
    [ op : {"calculateAdvancedImpermanentLoss"},
      poolData : PoolStates,
      priceScenarios : ScenarioLists ]

InitAnalytics ==
    /\ call \in LossCalls \cup SharpeCalls \cup AdvancedCalls
    /\ pc = call.op
    /\ freqCursor = 0
    /\ optimalFreq = 0
    /\ maxNetYield = 0
    /\ OptIdle /\ DrawdownIdle /\ RiskIdle /\ ErrorHandlerIdle
    /\ result = Pending

ReturnImpermanentLoss ==
    /\ pc = "calculateImpermanentLoss"
    /\ result' = CalculateImpermanentLoss(call.initialPrice, call.currentPrice)
    /\ pc' = "done"
    /\ UNCHANGED <<yieldVars, optVars, ddVars, riskVars, errVars>>

ReturnSharpeRatio ==
    /\ pc = "calculateSharpeRatio"
    /\ result' = CalculateSharpeRatio(call.returns, call.riskFreeRate, call.volatility)
    /\ pc' = "done"
    /\ UNCHANGED <<yieldVars, optVars, ddVars, riskVars, errVars>>

ReturnAdvancedImpermanentLoss ==
    /\ pc = "calculateAdvancedImpermanentLoss"
    /\ result' = CalculateAdvancedImpermanentLoss(call.poolData, call.priceScenarios)
    /\ pc' = "done"
    /\ UNCHANGED <<yieldVars, optVars, ddVars, riskVars, errVars>>

NextAnalytics ==
    \/ ReturnImpermanentLoss
    \/ ReturnSharpeRatio
    \/ ReturnAdvancedImpermanentLoss

SpecAnalytics == InitAnalytics /\ [][NextAnalytics]_vars

----------------------------------------------------------------------------
(* Claims about the one-call analytics *)

\* what a toFixed string reads as: its count with its sign
Signed(fixed) == IF fixed.negative THEN -fixed.count ELSE fixed.count

\* C16: calculateImpermanentLoss(r, r) reports a loss of 0 for every r > 0,
\* and the reported loss is symmetric under inversion of the price ratio:
\* calculateImpermanentLoss(a, b) and calculateImpermanentLoss(b, a) report
\* the same impermanentLoss and lossPercentage for all a, b > 0.
C16_LossSymmetricUnderInversion ==
    (pc = "done" /\ call.op = "calculateImpermanentLoss") =>
        LET inverse == CalculateImpermanentLoss(call.currentPrice, call.initialPrice)
        IN  /\ call.initialPrice = call.currentPrice =>
                  /\ result.impermanentLoss.count = 0
                  /\ result.lossPercentage.count = 0
            /\ result.impermanentLoss = inverse.impermanentLoss
            /\ result.lossPercentage = inverse.lossPercentage

AdvancedDone == pc = "done" /\ call.op = "calculateAdvancedImpermanentLoss"

\* the class the contract gives a loss: High above 20%, Medium above 10%
LossClass(impermanentLoss) ==
    IF FGreater(FAbs(impermanentLoss), FNum(2, 10)) THEN "High"
    ELSE IF FGreater(FAbs(impermanentLoss), FNum(1, 10)) THEN "Medium"
    ELSE "Low"

\* how many scenarios of the list given fall in a class
ScenariosOfClass(class) ==
    Cardinality({ i \in 1..Len(call.priceScenarios) :
                    LossClass(ScenarioLoss(call.poolData, call.priceScenarios[i])) = class })

\* C17: for every list of scenarios, each classified High when |IL| > 20%,
\* Medium when |IL| > 10% and Low otherwise, the overall risk level of
\* calculateAdvancedImpermanentLoss is High iff at least 2 scenarios are
\* High; otherwise Medium iff at least 1 is High or at least 2 are Medium;
\* otherwise Low.
C17_OverallRiskLevel ==
    AdvancedDone =>
        result.riskAssessment.overallRisk =
            IF ScenariosOfClass("High") >= 2 THEN "High"
            ELSE IF ScenariosOfClass("High") >= 1 \/ ScenariosOfClass("Medium") >= 2
                 THEN "Medium"
            ELSE "Low"

\* C17 witness: a list with exactly one High scenario and fewer than two
\* Medium ones has been assessed Medium
C17_Witness ==
    /\ AdvancedDone
    /\ Len(call.priceScenarios) >= 2
    /\ ScenariosOfClass("High") = 1
    /\ ScenariosOfClass("Medium") < 2
    /\ result.riskAssessment.overallRisk = "Medium"

SharpeDone == pc = "done" /\ call.op = "calculateSharpeRatio"

\* C18: calculateSharpeRatio rates by strict thresholds on sharpe =
\* (returns - riskFreeRate) / volatility: Excellent iff sharpe > 2, Good iff
\* 1 < sharpe <= 2, Fair iff 0.5 < sharpe <= 1, Poor iff sharpe <= 0.5; and
\* calculateSharpeRatio(15, 2, 10) gives 1.3 and Good.
C18_RatingByStrictThresholds ==
    SharpeDone =>
        LET sharpe == SharpeOf(call.returns, call.riskFreeRate, call.volatility)
            above(n, d) == FGreater(sharpe, FNum(n, d))
        IN  /\ result.rating = "Excellent" <=> above(2, 1)
            /\ result.rating = "Good" <=> (above(1, 1) /\ ~above(2, 1))
            /\ result.rating = "Fair" <=> (above(5, 10) /\ ~above(1, 1))
            /\ result.rating = "Poor" <=> ~above(5, 10)
            /\ (call.returns = FInt(15) /\ call.riskFreeRate = FInt(2)
                  /\ call.volatility = FInt(10)) =>
                  (Signed(result.sharpeRatio) = 1300 /\ result.rating = "Good")

\* C18 witness: a ratio of exactly 2, on the threshold, has been rated Good
C18_Witness ==
    /\ SharpeDone
    /\ SharpeOf(call.returns, call.riskFreeRate, call.volatility) = FInt(2)
    /\ result.rating = "Good"

RiskFreeRates == {c.riskFreeRate : c \in SharpeCalls}

\* C19 as stated: for fixed returns and fixed volatility > 0, a higher
\* riskFreeRate strictly lowers the sharpeRatio returned: every lower rate
\* returns a strictly higher sharpeRatio.
C19_Original ==
    SharpeDone =>
        \A rf1 \in RiskFreeRates :
            FGreater(call.riskFreeRate, rf1) =>
                Signed(CalculateSharpeRatio(call.returns, rf1, call.volatility).sharpeRatio)
                  > Signed(result.sharpeRatio)

\* C19: for fixed returns and fixed volatility > 0, a higher riskFreeRate
\* never raises the sharpeRatio returned, and strictly lowers it whenever
\* the two ratios differ by more than 0.001 before they are rounded to the
\* 3 decimals returned.
C19_LowerUpToRounding ==
    SharpeDone =>
        \A rf1 \in RiskFreeRates :
            FGreater(call.riskFreeRate, rf1) =>
                LET lower == CalculateSharpeRatio(call.returns, rf1, call.volatility)
                    gap == FSub(SharpeOf(call.returns, rf1, call.volatility),
                                SharpeOf(call.returns, call.riskFreeRate, call.volatility))
                IN  /\ Signed(lower.sharpeRatio) >= Signed(result.sharpeRatio)
                    /\ FGreater(gap, FNum(1, 1000)) =>
                          Signed(lower.sharpeRatio) > Signed(result.sharpeRatio)

\* C19 witness: a call whose riskFreeRate is above a lower one by more than
\* the resolution, and whose returned sharpeRatio is strictly below
C19_Witness ==
    /\ SharpeDone
    /\ \E rf1 \in RiskFreeRates :
          /\ FGreater(call.riskFreeRate, rf1)
          /\ FGreater(FSub(SharpeOf(call.returns, rf1, call.volatility),
                            SharpeOf(call.returns, call.riskFreeRate, call.volatility)),
                       FNum(1, 1000))
          /\ Signed(CalculateSharpeRatio(call.returns, rf1, call.volatility).sharpeRatio)
                > Signed(result.sharpeRatio)

\* the scenarios a call works on
ScenariosUsed ==
    IF Len(call.priceScenarios) > 0 THEN call.priceScenarios ELSE DefaultScenarios

\* C22 as stated: in every scenario of calculateAdvancedImpermanentLoss the
\* re-derived composition has newToken0Amount * newToken1Amount = k
\* = token0Amount * token1Amount, for positive amounts and prices and price
\* shifts that keep both prices positive.
C22_Original ==
    AdvancedDone =>
        \A i \in 1..Len(ScenariosUsed) :
            LET a == NewAmounts(call.poolData, ScenariosUsed[i])
            IN  FMul(a.newToken0Amount, a.newToken1Amount) = a.k

\* two units in the last place of x
TwoUlp(x) == [s |-> 1, m |-> 2 ^ (SignificandBits - 1), e |-> x.e + 2 - SignificandBits]

\* C22: in every scenario the re-derived composition keeps the constant
\* product up to the rounding of the two operations that compute it:
\* newToken0Amount * newToken1Amount differs from k = token0Amount *
\* token1Amount by at most two units in the last place of k.
C22_ConstantProductUpToRounding ==
    AdvancedDone =>
        \A i \in 1..Len(ScenariosUsed) :
            LET a == NewAmounts(call.poolData, ScenariosUsed[i])
                product == FMul(a.newToken0Amount, a.newToken1Amount)
            IN  ~FGreater(FAbs(FSub(product, a.k)), TwoUlp(a.k))

\* C22 witness: a call has returned for which one scenario gives the product
\* k exactly and another a product that rounding has moved off k
C22_Witness ==
    /\ AdvancedDone
    /\ \E i, j \in 1..Len(ScenariosUsed) :
          LET a == NewAmounts(call.poolData, ScenariosUsed[i])
              b == NewAmounts(call.poolData, ScenariosUsed[j])
          IN  /\ FMul(a.newToken0Amount, a.newToken1Amount) = a.k
              /\ FMul(b.newToken0Amount, b.newToken1Amount) # b.k

\* C26: a scenario with both price changes 0 is reported with an
\* impermanent loss of 0 and poolValue = holdValue = initialValue, and in
\* every scenario the reported poolValue is at most the reported holdValue.
C26_PoolValueAtMostHoldValue ==
    AdvancedDone =>
        \A i \in 1..Len(ScenariosUsed) :
            LET r == result.scenarios[i]
            IN  /\ Signed(r.poolValue) <= Signed(r.holdValue)
                /\ (ScenariosUsed[i].token0Change = FZero
                        /\ ScenariosUsed[i].token1Change = FZero) =>
                      /\ r.impermanentLoss.count = 0
                      /\ r.poolValue = r.holdValue
                      /\ r.holdValue = result.initialValue

----------------------------------------------------------------------------
(* BaseErrorHandler: retryOperation and handleError (src/unnamed/part_001) *)
(* retryOperation is an async function: it is cut at its awaits, the call  *)
(* of the operation and the sleep between two attempts.  handleError       *)
(* changes the handler's state before its only await (attemptRecovery),    *)
(* and nothing after it, so one call is one step.                          *)

\* the values an operation throws: instances of the error classes of lines
\* 10-66 and a plain Error, which has no code
ErrorPool ==
    { [name |-> "ValidationError", code |-> "VALIDATION_ERROR", message |-> "invalid amount"],
      [name |-> "NetworkError", code |-> "NETWORK_ERROR", message |-> "rpc timeout"],
      [name |-> "Error", code |-> "undefined", message |-> "boom"] }

\* the retryCondition functions passed: the default of line 199, one that
\* never retries, one that retries network errors only
RetryConditions == {"always", "never", "networkOnly"}

RetryCondition(condition, error) ==
    CASE condition = "always" -> TRUE
      [] condition = "never" -> FALSE
      [] condition = "networkOnly" -> error.code = "NETWORK_ERROR"

MaxRetries == 3

RetryCalls ==
    [ op : {"retryOperation"},
      maxRetries : 0..MaxRetries,
      retryCondition : RetryConditions ]

\* lines 229-234: the error thrown after the loop
RetryExhausted(maxRetries, error) ==
    [ thrown |-> "DeFiError",
      code |-> "RETRY_EXHAUSTED",
      message |-> <<"Operation failed after", maxRetries + 1, "attempts:", error.message>>,
      details |-> [originalError |-> error, attempts |-> maxRetries + 1] ]

\* determineSeverity(error): lines 408-416
DetermineSeverity(error) ==
    CASE error.name = "ValidationError" -> "medium"
      [] error.name = "NetworkError" -> "high"
      [] OTHER -> "medium"

\* categorizeError(error): lines 418-426
CategorizeError(error) ==
    CASE error.name = "ValidationError" -> "validation"
      [] error.name = "NetworkError" -> "network"
      [] OTHER -> "unknown"

\* processError(error, context): lines 129-149; the id, which the code makes
\* of the clock and a random number, is the error's ordinal
ProcessError(error, seq) ==
    [ id |-> seq,
      name |-> error.name,
      message |-> error.message,
      code |-> IF error.code = "undefined" THEN "UNKNOWN_ERROR" ELSE error.code,
      severity |-> DetermineSeverity(error),
      category |-> CategorizeError(error) ]

\* the strategies registered by setupDefaultRecoveryStrategies, lines 342-366
RecoveryStrategies == {"NETWORK_ERROR", "PRICE_ERROR", "VALIDATION_ERROR", "default"}

\* attemptRecovery(errorInfo, context): lines 158-185
AttemptRecovery(errorInfo) ==
    LET strategy == IF errorInfo.code \in RecoveryStrategies THEN errorInfo.code
                    ELSE IF errorInfo.category \in RecoveryStrategies THEN errorInfo.category
                    ELSE "default"
    IN  [attempted |-> TRUE, successful |-> FALSE, strategy |-> strategy]

\* the key of line 429
MetricsKey(errorInfo) == <<errorInfo.name, errorInfo.code>>

HistoryLimit == 100

\* lines 434-437 with the newest entry dropped when the history is full
PushToHistoryDropNewest(history, errorInfo) ==
    IF Len(history) + 1 > HistoryLimit THEN history ELSE Append(history, errorInfo)

\* lines 434-437: push, then shift when the history is over its limit
PushToHistory(history, errorInfo) ==
    LET pushed == Append(history, errorInfo)
    IN  IF Len(pushed) > HistoryLimit THEN Tail(pushed) ELSE pushed

\* lines 429-431
CountError(counts, key) ==
    LET count == IF key \in DOMAIN counts THEN counts[key] ELSE 0
    IN  [k \in DOMAIN counts \cup {key} |-> IF k = key THEN count + 1 ELSE counts[k]]

RecentCount == 10

\* getErrorStats(): lines 460-468
GetErrorStats ==
    LET n == Len(errorHistory)
        from == IF n > RecentCount THEN n - RecentCount + 1 ELSE 1
    IN  [ totalErrors |-> n,
          errorCounts |-> errorCounts,
          recentErrors |-> SubSeq(errorHistory, from, n),
          errorsByCategory |->
              [c \in {errorHistory[k].category : k \in 1..n} |->
                  Cardinality({k \in 1..n : errorHistory[k].category = c})],
          errorsBySeverity |->
              [c \in {errorHistory[k].severity : k \in 1..n} |->
                  Cardinality({k \in 1..n : errorHistory[k].severity = c})] ]

\* how many handleError calls a handler receives
MaxHandled == 103

\* the errors handed to handleError, one after the other
ErrorStreams ==
    LET validation == CHOOSE e \in ErrorPool : e.name = "ValidationError"
        network == CHOOSE e \in ErrorPool : e.name = "NetworkError"
        plain == CHOOSE e \in ErrorPool : e.name = "Error"
    IN  { [n \in 1..MaxHandled |-> validation],
          [n \in 1..MaxHandled |-> IF n % 2 = 1 THEN network ELSE plain],
          [n \in 1..MaxHandled |->
              IF n % 50 = 0 THEN plain ELSE IF n % 3 = 0 THEN network ELSE validation] }

HandleCalls ==
    [ op : {"handleError"},
      errors : ErrorStreams,
      config : [enableMetrics : BOOLEAN] ]

InitErrorHandler ==
    /\ call \in RetryCalls \cup HandleCalls
    /\ pc = IF call.op = "retryOperation" THEN "retry_loop" ELSE "handleError"
    /\ freqCursor = 0
    /\ optimalFreq = 0
    /\ maxNetYield = 0
    /\ OptIdle /\ DrawdownIdle /\ RiskIdle /\ ErrorHandlerIdle
    /\ result = Pending

\* lines 204-206: the loop's test holds and the operation is called
InvokeOperation ==
    /\ pc = "retry_loop"
    /\ attempt <= call.maxRetries
    /\ operationPending' = TRUE
    /\ invocations' = invocations + 1
    /\ pc' = "retry_await"
    /\ UNCHANGED <<attempt, lastError, errorCounts, errorHistory, errorSeq, result>>
    /\ UNCHANGED <<yieldVars, optVars, ddVars, riskVars>>

\* lines 206-212: the operation resolves, with the value of this invocation
OperationResolves ==
    /\ pc = "retry_await"
    /\ operationPending' = FALSE
    /\ result' = [value |-> invocations]
    /\ pc' = "done"
    /\ UNCHANGED <<attempt, lastError, invocations, errorCounts, errorHistory, errorSeq>>
    /\ UNCHANGED <<yieldVars, optVars, ddVars, riskVars>>

\* a rejection after which retryCondition is not consulted
OperationRejectsAlwaysRetry ==
    /\ pc = "retry_await"
    /\ \E error \in ErrorPool :
          /\ lastError' = error
          /\ pc' = IF attempt = call.maxRetries
                   THEN "retry_exhausted" ELSE "retry_sleep"
    /\ operationPending' = FALSE
    /\ UNCHANGED <<attempt, invocations, errorCounts, errorHistory, errorSeq, result>>
    /\ UNCHANGED <<yieldVars, optVars, ddVars, riskVars>>

\* lines 213-226: the operation rejects
OperationRejects ==
    /\ pc = "retry_await"
    /\ \E error \in ErrorPool :
          /\ lastError' = error
          /\ pc' = IF attempt = call.maxRetries
                      \/ ~RetryCondition(call.retryCondition, error)
                   THEN "retry_exhausted" ELSE "retry_sleep"
    /\ operationPending' = FALSE
    /\ UNCHANGED <<attempt, invocations, errorCounts, errorHistory, errorSeq, result>>
    /\ UNCHANGED <<yieldVars, optVars, ddVars, riskVars>>

\* lines 226 and 204: the sleep is over, attempt++
SleepDone ==
    /\ pc = "retry_sleep"
    /\ attempt' = attempt + 1
    /\ pc' = "retry_loop"
    /\ UNCHANGED <<lastError, operationPending, invocations, errorCounts,
                   errorHistory, errorSeq, result>>
    /\ UNCHANGED <<yieldVars, optVars, ddVars, riskVars>>

\* lines 230-234
ThrowRetryExhausted ==
    /\ pc = "retry_exhausted"
    /\ result' = RetryExhausted(call.maxRetries, lastError)
    /\ pc' = "done"
    /\ UNCHANGED <<yieldVars, optVars, ddVars, riskVars, errVars>>

\* handleError(error, context): lines 98-121, with updateErrorMetrics
\* (lines 428-438)
HandleError ==
    /\ pc = "handleError"
    /\ errorSeq < MaxHandled
    /\ LET errorInfo == ProcessError(call.errors[errorSeq + 1], errorSeq + 1)
       IN  /\ errorSeq' = errorSeq + 1
           /\ IF call.config.enableMetrics
              THEN /\ errorCounts' = CountError(errorCounts, MetricsKey(errorInfo))
                   /\ errorHistory' = PushToHistory(errorHistory, errorInfo)
              ELSE UNCHANGED <<errorCounts, errorHistory>>
           /\ result' = [ error |-> errorInfo,
                          recovery |-> AttemptRecovery(errorInfo),
                          handled |-> TRUE ]
    /\ UNCHANGED <<pc, attempt, lastError, operationPending, invocations>>
    /\ UNCHANGED <<yieldVars, optVars, ddVars, riskVars>>

NextErrorHandler ==
    \/ InvokeOperation
    \/ OperationResolves
    \/ OperationRejects
    \/ SleepDone
    \/ ThrowRetryExhausted
    \/ HandleError

SpecErrorHandler == InitErrorHandler /\ [][NextErrorHandler]_vars

----------------------------------------------------------------------------
(* Claims about BaseErrorHandler *)

RetryCall == call.op = "retryOperation"

RetryFailed == RetryCall /\ pc = "done" /\ "thrown" \in DOMAIN result

\* what holds of every state of a retryOperation call
RetryState ==
    RetryCall =>
        /\ invocations <= call.maxRetries + 1
        /\ (pc = "done" /\ "value" \in DOMAIN result) =>
              /\ result.value = invocations
              /\ ~operationPending
        /\ RetryFailed =>
              /\ result.thrown = "DeFiError"
              /\ result.code = "RETRY_EXHAUSTED"
              /\ lastError \in ErrorPool
              /\ result.details.originalError = lastError

\* what holds of every step that invokes the operation
RetryStep ==
    invocations' # invocations =>
        /\ invocations' = invocations + 1
        /\ invocations < call.maxRetries + 1
        /\ ~operationPending
        /\ result = Pending
        /\ lastError # NoError => RetryCondition(call.retryCondition, lastError)

\* C28: retryOperation invokes the operation at most maxRetries + 1 times,
\* each invocation after the one before has settled; it returns the value
\* of the first invocation that succeeds and invokes nothing after it; it
\* invokes nothing after a failure for which retryCondition returns false;
\* and when it gives up it throws a DeFiError of code RETRY_EXHAUSTED whose
\* details hold the last error.
C28_RetryOperation == []RetryState /\ [][RetryStep]_vars

\* C28 witness: the call gave up after a second failure, for which
\* retryCondition returned false, with attempts left
C28_Witness ==
    /\ RetryFailed
    /\ invocations = 2
    /\ invocations < call.maxRetries + 1
    /\ ~RetryCondition(call.retryCondition, lastError)
    /\ result.details.originalError = lastError

\* C29: whenever retryOperation fails with RETRY_EXHAUSTED, the number of
\* attempts it reports, in the message and in details.attempts, is the
\* number of times the operation was invoked.
C29_ReportedAttemptsAreInvocations ==
    (RetryFailed /\ result.code = "RETRY_EXHAUSTED") =>
        /\ result.details.attempts = invocations
        /\ result.message[2] = invocations

\* the entry handleError makes of the n-th error it is given
Handled(n) == ProcessError(call.errors[n], n)

\* C30: after any sequence of handleError calls with metrics enabled,
\* errorHistory holds at most 100 entries, which are the most recently
\* handled errors in the order they were handled, and errorCounts holds for
\* every key the number of all the errors handled with that key.
C30_HistoryBoundedCountsComplete ==
    (call.op = "handleError" /\ call.config.enableMetrics) =>
        LET n == Len(errorHistory)
            stats == GetErrorStats
        IN  /\ n <= HistoryLimit
            /\ n = Min2(errorSeq, HistoryLimit)
            /\ stats.totalErrors = n
            /\ \A k \in 1..n : errorHistory[k] = Handled(errorSeq - n + k)
            /\ DOMAIN stats.errorCounts = {MetricsKey(Handled(h)) : h \in 1..errorSeq}
            /\ \A key \in DOMAIN stats.errorCounts :
                  stats.errorCounts[key]
                      = Cardinality({h \in 1..errorSeq : MetricsKey(Handled(h)) = key})

\* C30 witness: more errors were handled than the history keeps, under more
\* than one key
C30_Witness ==
    /\ call.op = "handleError" /\ call.config.enableMetrics
    /\ errorSeq > HistoryLimit + 1
    /\ Len(errorHistory) = HistoryLimit
    /\ Cardinality(DOMAIN errorCounts) >= 2
    /\ \E key \in DOMAIN errorCounts : errorCounts[key] > HistoryLimit \div 2

====
